---------------------------- MODULE Spec2Model ----------------------------
(***************************************************************************)
(* Model of the application-form PDF service:                              *)
(*   - the PDF renderer (lib/pdf-generator.ts, kept as src/unnamed/part_000):*)
(*     wrapText, addTitle, addSection, embedUploadedPDF, generatePDF;      *)
(*   - the submit and download routes (app/api/submit/route.ts).           *)
(*                                                                         *)
(* Lengths are integers in milli-points (1 pt = 1000), so that the A4 page *)
(* size 595.28 x 841.89 pt and the glyph widths of Helvetica at 12 pt are  *)
(* exact integers.                                                         *)
(*                                                                         *)
(* A text is a sequence of characters. The characters of the model are     *)
(* named by the strings below; LET stands for a run of RunLen letters "a"  *)
(* (a piece of a word), which lets a text of a few symbols fill a line.    *)
(***************************************************************************)
EXTENDS Integers, Sequences, FiniteSets, TLC

(***************************************************************************)
(* Bounds of the model.                                                    *)
(***************************************************************************)
\* longest text given to wrapText, in symbols
MaxLen == 5
\* letters "a" one LET symbol stands for
RunLen == 30
\* most paragraphs of a job description
MaxLines == 60
\* most pages of an uploaded PDF
MaxPages == 2
\* submit requests
MaxPosts == 2
\* download requests
MaxGets == 1

(***************************************************************************)
(* PDF_CONFIG (lib/constants.ts), in milli-points.                         *)
(***************************************************************************)
\* PAGE_WIDTH: 595.28
PAGE_WIDTH == 595280
\* PAGE_HEIGHT: 841.89
PAGE_HEIGHT == 841890
\* MARGIN: 50
MARGIN == 50000
\* TITLE_SIZE: 24
TITLE_SIZE == 24000
\* HEADING_SIZE: 16
HEADING_SIZE == 16000
\* TEXT_SIZE: 12 (a font size in points; glyph widths are per 1000 em)
TEXT_SIZE == 12
\* LINE_HEIGHT: 18
LINE_HEIGHT == 18000

(***************************************************************************)
(* Characters.                                                             *)
(***************************************************************************)
\* a run of RunLen letters "a"
LET_ == "a.."
\* the space, U+0020
SP == " "
\* the line feed, U+000A
LF == "LF"
\* a control character of the stripped range, U+0007
CTL == "x07"
\* a character above U+00FF (U+4E2D): not stripped, and not in WinAnsi
UNI == "u4E2D"

Chars == {LET_, SP, LF, CTL, UNI}

\* the texts of at most n symbols
TextsUpTo(n) == UNION {[1..k -> Chars] : k \in 0..n}

(***************************************************************************)
(* String helpers (the JavaScript primitives the renderer uses).           *)
(***************************************************************************)
\* the class [\x00-\x08\x0B\x0C\x0E-\x1F\x7F-\xFF] of the three replace calls
IsStripped(c) == c = CTL

\* s.replace(/[\x00-\x08\x0B\x0C\x0E-\x1F\x7F-\xFF]/g, "")
StripCtl(c) == ~IsStripped(c)
Sanitize(s) == SelectSeq(s, StripCtl)

\* s.split(sep) for a one-character separator: n separators give n+1 parts,
\* part k lying between separator k-1 and separator k
SepsUpTo(s, sep, i) == Cardinality({j \in 1..i : s[j] = sep})

PartStart(s, sep, k) ==
    IF k = 1 THEN 1
    ELSE 1 + CHOOSE i \in 1..Len(s) : s[i] = sep /\ SepsUpTo(s, sep, i) = k - 1

PartEnd(s, sep, k) ==
    IF k = SepsUpTo(s, sep, Len(s)) + 1 THEN Len(s)
    ELSE (CHOOSE i \in 1..Len(s) : s[i] = sep /\ SepsUpTo(s, sep, i) = k) - 1

SplitOn(s, sep) ==
    [k \in 1..(SepsUpTo(s, sep, Len(s)) + 1) |->
        SubSeq(s, PartStart(s, sep, k), PartEnd(s, sep, k))]

\* !s.trim(): s holds white space only
IsBlank(s) == \A i \in 1..Len(s) : s[i] \in {SP, LF}

\* the concatenation of the sequences ss[lo..hi], computed by halves
RECURSIVE FlattenRange(_, _, _)
FlattenRange(ss, lo, hi) ==
    IF lo > hi THEN <<>>
    ELSE IF lo = hi THEN ss[lo]
    ELSE FlattenRange(ss, lo, (lo + hi) \div 2)
             \o FlattenRange(ss, (lo + hi) \div 2 + 1, hi)

\* the concatenation of a sequence of sequences
Flatten(ss) == FlattenRange(ss, 1, Len(ss))

\* parts.join(sep)
Join(parts, sep) ==
    Flatten([i \in 1..(2 * Len(parts) - 1) |->
                IF i % 2 = 1 THEN parts[(i + 1) \div 2] ELSE <<sep>>])

(***************************************************************************)
(* The font metric: Helvetica in WinAnsi encoding.                         *)
(***************************************************************************)
\* widthOfTextAtSize throws for a character WinAnsi cannot encode
CanEncode(s) == \A i \in 1..Len(s) : s[i] # UNI

\* the advance width of a symbol at TEXT_SIZE: Helvetica "a" is 556/1000 em,
\* the space 278/1000 em; a fixed phrase of the renderer (any other symbol)
\* is as wide as that many letters "a"
GlyphWidth(c) ==
    IF c = LET_ THEN RunLen * 556 * TEXT_SIZE
    ELSE IF c = SP THEN 278 * TEXT_SIZE
    ELSE IF c \in {LF, CTL, UNI} THEN 0
    ELSE Len(c) * 556 * TEXT_SIZE

RECURSIVE WidthOfTextAtSize(_)
WidthOfTextAtSize(s) ==
    IF Len(s) = 0 THEN 0 ELSE GlyphWidth(s[1]) + WidthOfTextAtSize(Tail(s))

(***************************************************************************)
(* wrapText                                                                *)
(***************************************************************************)
\* const maxWidth = context.pageWidth - 2 * context.margin
MaxWidth(pageWidth, margin) == pageWidth - 2 * margin

\* a variant that joins the word to the line without the space
TestLineNoSpace(currentLine, cleanWord) == currentLine \o cleanWord

\* the line to measure: currentLine ? `${currentLine} ${cleanWord}` : cleanWord
TestLine(currentLine, cleanWord) ==
    IF currentLine # <<>> THEN currentLine \o <<SP>> \o cleanWord ELSE cleanWord

\* a variant that measures the line before the word is added to it
BreaksLineMeasuresCurrent(testLine, currentLine, maxWidth) ==
    WidthOfTextAtSize(currentLine) > maxWidth /\ currentLine # <<>>

\* the decision to close the current line and start a new one with the word
BreaksLine(testLine, currentLine, maxWidth) ==
    WidthOfTextAtSize(testLine) > maxWidth /\ currentLine # <<>>

\* the loop over the words of one paragraph, from word i on
RECURSIVE WrapWords(_, _, _, _, _)
WrapWords(words, i, lines, currentLine, maxWidth) ==
    IF i > Len(words)
    THEN IF currentLine # <<>> THEN Append(lines, currentLine) ELSE lines
    ELSE LET cleanWord == Sanitize(words[i])
             testLine == TestLine(currentLine, cleanWord)
         IN  IF ~CanEncode(testLine)
             THEN WrapWords(words, i + 1, lines, currentLine, maxWidth)
             ELSE IF BreaksLine(testLine, currentLine, maxWidth)
             THEN WrapWords(words, i + 1, Append(lines, currentLine),
                            cleanWord, maxWidth)
             ELSE WrapWords(words, i + 1, lines, testLine, maxWidth)

\* the lines of one paragraph: an empty line for a blank paragraph
WrapParagraph(paragraph, maxWidth) ==
    IF IsBlank(paragraph) THEN << <<>> >>
    ELSE WrapWords(SplitOn(paragraph, SP), 1, <<>>, <<>>, maxWidth)

\* allLines.push(...lines) for each paragraph in turn
WrapParagraphs(paragraphs, maxWidth) ==
    Flatten([p \in 1..Len(paragraphs) |-> WrapParagraph(paragraphs[p], maxWidth)])

\* text.split(/\r?\n/)
Paragraphs(text) == SplitOn(text, LF)

wrapText(text, pageWidth, margin) ==
    WrapParagraphs(Paragraphs(text), MaxWidth(pageWidth, margin))

(***************************************************************************)
(* The document and the layout context (PDFGenerationContext).             *)
(* A page is a layout page with the texts drawn on it, or a page copied    *)
(* from the uploaded PDF (src: its index there).                           *)
(***************************************************************************)
LayoutPage == [kind |-> "layout", items |-> <<>>, src |-> 0]

CopiedPage(i) == [kind |-> "copied", items |-> <<>>, src |-> i]

\* no document yet: let context = null
NoContext ==
    [pages |-> <<>>, page |-> 0, currentY |-> 0, pageWidth |-> 0,
     pageHeight |-> 0, margin |-> 0]

\* PDFDocument.create(), addPage([PAGE_WIDTH, PAGE_HEIGHT]), context = {...}
NewContext ==
    [pages |-> <<LayoutPage>>, page |-> 1, currentY |-> PAGE_HEIGHT - MARGIN,
     pageWidth |-> PAGE_WIDTH, pageHeight |-> PAGE_HEIGHT, margin |-> MARGIN]

\* a variant that adds the page and leaves the cursor where it was
NewPageKeepsCursor(ctx) ==
    [ctx EXCEPT !.pages = Append(@, LayoutPage), !.page = Len(ctx.pages) + 1]

\* context.page = context.doc.addPage([pageWidth, pageHeight]);
\* context.currentY = context.pageHeight - context.margin
NewPage(ctx) ==
    [ctx EXCEPT !.pages = Append(@, LayoutPage),
                !.page = Len(ctx.pages) + 1,
                !.currentY = ctx.pageHeight - ctx.margin]

\* if (context.currentY < context.margin + room) { new page }
PageIfNeeded(ctx, room) ==
    IF ctx.currentY < ctx.margin + room THEN NewPage(ctx) ELSE ctx

\* context.page.drawText(text, {x: margin, y: currentY, size, ...})
DrawText(ctx, text, size) ==
    [ctx EXCEPT !.pages[ctx.page].items =
                    Append(@, [text |-> text, y |-> ctx.currentY, size |-> size])]

\* context.currentY -= d
Advance(ctx, d) == [ctx EXCEPT !.currentY = @ - d]

addTitle(ctx, title) ==
    Advance(DrawText(ctx, Sanitize(title), TITLE_SIZE), TITLE_SIZE + 20000)

\* addSection, the heading: drawText(cleanHeading), currentY -= HEADING_SIZE + 10
DrawHeading(ctx, heading) ==
    Advance(DrawText(ctx, Sanitize(heading), HEADING_SIZE), HEADING_SIZE + 10000)

\* addSection, one line: drawn unless it is blank or drawText throws on it,
\* then currentY -= LINE_HEIGHT
DrawLine(ctx, line) ==
    Advance(IF ~IsBlank(line) /\ CanEncode(line)
            THEN DrawText(ctx, line, TEXT_SIZE * 1000)
            ELSE ctx,
            LINE_HEIGHT)

(***************************************************************************)
(* The submission's texts.                                                 *)
(***************************************************************************)
\* new Date(d).toLocaleDateString("en-US", {year, month: "long", day, hour, minute})
FormatDate(d) ==
    <<"January", SP, "5,", SP, "2025", SP, "at", SP,
      IF d = "2025-01-05T10:30" THEN "10:30"
      ELSE IF d = "2025-01-05T10:31" THEN "10:31" ELSE "10:32",
      SP, "AM">>

\* a variant that stamps the summary with the time of the call
ApplicationDateNow(submission, now) == FormatDate(now)

\* the date of generateApplicantInfo: that of the submission's creation
ApplicationDate(submission, now) == FormatDate(submission.createdAt)

generateApplicantInfo(submission, now) ==
    Join(<< <<"Name:", SP>> \o submission.firstName \o <<SP>> \o submission.lastName,
            <<"Email:", SP>> \o submission.email,
            <<"Phone:", SP>> \o (IF submission.phone # <<>> THEN submission.phone
                                 ELSE <<"Not", SP, "provided">>),
            <<"Application", SP, "Date:", SP>> \o ApplicationDate(submission, now),
            <<"Status:", SP, submission.status>> >>, LF)

generateDocumentInfo(submission) ==
    IF submission.uploadedFileName = <<>> THEN <<"No", SP, "document", SP, "uploaded">>
    ELSE <<"Uploaded", SP, "File:", SP>> \o submission.uploadedFileName
             \o <<LF, "File processed and attached to this PDF.">>

\* path.basename(filePath)
Basename(filePath) == <<filePath[Len(filePath)]>>

\* the double quote
QT == "\""

(***************************************************************************)
(* What generatePDF has left to do is a sequence of steps, each            *)
(*   [op |-> "section", heading, text]  a call of addSection               *)
(*   [op |-> "embed"]                   the call of embedUploadedPDF       *)
(*   [op |-> "pages", n]                the copied pages are added         *)
(***************************************************************************)
Section(heading, text) ==
    [op |-> "section", heading |-> heading, text |-> text, n |-> 0]

EmbedStep == [op |-> "embed", heading |-> <<>>, text |-> <<>>, n |-> 0]

PagesStep(n) == [op |-> "pages", heading |-> <<>>, text |-> <<>>, n |-> n]

\* the sections of the summary, lines 57 to 68
SummarySteps(submission, now) ==
    << Section(<<"Applicant Information">>, generateApplicantInfo(submission, now)),
       Section(<<"Current Job Description">>, submission.jobDescription),
       Section(<<"Uploaded Document">>, generateDocumentInfo(submission)) >>
    \o (IF submission.uploadedFilePath # <<>> THEN <<EmbedStep>> ELSE <<>>)

(***************************************************************************)
(* embedUploadedPDF. file is what the path holds: kind is                  *)
(*   "missing"     access(filePath) rejects                                *)
(*   "unreadable"  readFile(filePath) rejects                              *)
(*   "empty"       the file has no bytes                                   *)
(*   "corrupt"     PDFDocument.load rejects                                *)
(*   "uncopyable"  the PDF loads, and copyPages rejects                    *)
(*   "ok"          the PDF loads and its pageCount pages (0 or more) copy  *)
(* The result is whether the call throws, and the steps it takes if not.   *)
(***************************************************************************)
FailureHeading == "Attached Document"

DividerHeading == "Attached Resume/Document"

Takes(steps) == [throws |-> FALSE, steps |-> steps]

\* a variant whose outer catch throws the error on
OuterCatchRethrows(message) == [throws |-> TRUE, steps |-> <<>>]

\* the outer catch: the error's message goes into a section, nothing is thrown
OuterCatch(message) ==
    Takes(<< Section(<<FailureHeading>>,
        <<"Document was uploaded but could not be embedded in this PDF.",
          SP, "Error:", SP, message>>) >>)

\* the inner catch (copyError)
CopyFailedSection(filePath) ==
    Section(<<FailureHeading>>,
        <<"Document", SP, QT>> \o Basename(filePath)
            \o <<QT, SP, "was uploaded but pages could not be copied.", SP,
                 "The file may have restrictions or be corrupted.">>)

\* the section that announces the copied pages
DividerSection(pageCount) ==
    Section(<<DividerHeading>>,
        <<"The following", SP, ToString(pageCount), SP,
          "page(s) contain the uploaded document:">>)

\* a variant that writes the divider before the pages are copied
CopyPagesDividerFirst(file, filePath) ==
    IF file.kind = "uncopyable"
    THEN Takes(<<DividerSection(file.pageCount), CopyFailedSection(filePath)>>)
    ELSE Takes(<<DividerSection(file.pageCount), PagesStep(file.pageCount)>>)

\* the try block around copyPages: the pages are copied, then the divider
\* is written and the copies are added
CopyPages(file, filePath) ==
    IF file.kind = "uncopyable"
    THEN Takes(<<CopyFailedSection(filePath)>>)
    ELSE Takes(<<DividerSection(file.pageCount), PagesStep(file.pageCount)>>)

embedUploadedPDF(file, filePath) ==
    IF file.kind = "missing"
    THEN OuterCatch("ENOENT: no such file or directory")
    ELSE IF file.kind = "unreadable"
    THEN OuterCatch("EACCES: permission denied")
    ELSE IF file.kind = "empty"
    THEN Takes(<< Section(<<FailureHeading>>,
             <<"Document file was empty and could not be processed.">>) >>)
    ELSE IF file.kind = "corrupt"
    THEN Takes(<< Section(<<FailureHeading>>,
             <<"Document", SP, QT>> \o Basename(filePath)
                 \o <<QT, SP, "was uploaded but could not be processed.", SP,
                      "The file may be corrupted or encrypted.">>) >>)
    ELSE IF file.pageCount = 0
    THEN Takes(<< Section(<<FailureHeading>>,
             <<"Document file contains no pages and could not be processed.">>) >>)
    ELSE CopyPages(file, filePath)

\* copiedPages.forEach(p => context.doc.addPage(p))
RECURSIVE AddCopiedPages(_, _, _)
AddCopiedPages(ctx, i, n) ==
    IF i > n THEN ctx
    ELSE AddCopiedPages([ctx EXCEPT !.pages = Append(@, CopiedPage(i))], i + 1, n)

\* path.join(process.cwd(), "uploads", "generated", `application-${id}.pdf`)
PdfPath(id) == <<"uploads", "generated", "application-", id, ".pdf">>

(***************************************************************************)
(* State.                                                                  *)
(***************************************************************************)
VARIABLES
    content,      \* the text handed to the renderer's text flow
    wrapInput,    \* the argument of the last call of wrapText
    lines,        \* what that call returned
    wrapPc,       \* "input" before the call, "wrapped" or "sectioned" after it
    submission,   \* the UserSubmission generatePDF is called on
    upload,       \* what submission.uploadedFilePath holds: [kind, pageCount]
    clock,        \* the time of day
    call,         \* the number of the running call of generatePDF: 1 or 2
    genPc,        \* where that call stands
    context,      \* its PDFGenerationContext
    plan,         \* the steps it has left, the running one first
    pending,      \* the lines the running addSection has left to draw
    thrownAt,     \* the step that made it throw, "none" if none did
    generated,    \* the pages of the file at the generated PDF's path
    first,        \* what the first call left: its outcome, pages and path
    db,           \* the userSubmission table: one record per key, once created
    stored,       \* the keys of the uploaded files written to uploads/
    uploadsDir,   \* whether the uploads directory exists
    genFiles,     \* per submission, the file at its generated PDF's path
    posts,        \* the submit requests
    gets          \* the download requests

wrapVars == <<content, wrapInput, lines, wrapPc>>

genVars == <<submission, upload, clock, call, genPc, context, plan, pending,
             thrownAt, generated, first>>

apiVars == <<db, stored, uploadsDir, genFiles, posts, gets>>

vars == <<wrapVars, genVars, apiVars>>

Posts == 1..MaxPosts

Gets == 1..MaxGets

\* no response sent yet
NoResponse == [success |-> FALSE, status |-> 0, submissionId |-> "", body |-> ""]

\* formData.get("file") of a request without a file
NoFile == [present |-> FALSE, type |-> "", size |-> 0]

\* a submit request that has not arrived. Its locals, as in POST:
\*   input     the form data: whether the fields satisfy the schema, the file
\*   filePath  the key of the uploaded file it wrote (0: none)
\*   sub       the key of the record it created (0: none)
\*   pdfError  whether generatePDF threw
\*   pdfPath   the path generatePDF returned (<<>>: none)
IdlePost ==
    [pc |-> "idle", input |-> [fieldsValid |-> FALSE, file |-> NoFile],
     filePath |-> 0, sub |-> 0, pdfError |-> FALSE, pdfPath |-> <<>>,
     response |-> NoResponse]

\* a download request that has not arrived: the id asked for, the key and
\* the generatedPdfPath of the record found
IdleGet ==
    [pc |-> "idle", id |-> "", sub |-> 0, path |-> <<>>, response |-> NoResponse]

\* no record under this key (generatedPdfPath <<>>: null)
NoRecord == [exists |-> FALSE, id |-> "", status |-> "", generatedPdfPath |-> <<>>]

\* the routes are not serving
ApiIdle ==
    /\ db = [k \in Posts |-> NoRecord]
    /\ stored = {}
    /\ uploadsDir = FALSE
    /\ genFiles = [k \in Posts |-> "absent"]
    /\ posts = [p \in Posts |-> IdlePost]
    /\ gets = [g \in Gets |-> IdleGet]

\* the renderer is not running
GenIdle ==
    /\ submission = [id |-> "none"]
    /\ upload = [kind |-> "missing", pageCount |-> 0]
    /\ clock = "2025-01-05T10:30"
    /\ call = 0
    /\ genPc = "idle"
    /\ context = NoContext
    /\ plan = <<>>
    /\ pending = <<>>
    /\ thrownAt = "none"
    /\ generated = <<>>
    /\ first = [outcome |-> "none", pages |-> <<>>, path |-> <<>>]

\* the text flow is not running
WrapIdle ==
    /\ content = <<>>
    /\ wrapInput = <<>>
    /\ lines = <<>>
    /\ wrapPc = "idle"

(***************************************************************************)
(* The text flow on its own: wrapText called on a text, directly or as     *)
(* addSection calls it (on the sanitized content).                         *)
(***************************************************************************)
InitWrap ==
    /\ content \in TextsUpTo(MaxLen)
    /\ wrapInput = <<>>
    /\ lines = <<>>
    /\ wrapPc = "input"
    /\ GenIdle
    /\ ApiIdle

\* wrapText(content, context)
WrapCall ==
    /\ wrapPc = "input"
    /\ wrapInput' = content
    /\ lines' = wrapText(content, PAGE_WIDTH, MARGIN)
    /\ wrapPc' = "wrapped"
    /\ UNCHANGED <<content, genVars, apiVars>>

\* addSection: cleanContent = content.replace(...); wrapText(cleanContent, context)
AddSectionWrap ==
    /\ wrapPc = "input"
    /\ wrapInput' = Sanitize(content)
    /\ lines' = wrapText(Sanitize(content), PAGE_WIDTH, MARGIN)
    /\ wrapPc' = "sectioned"
    /\ UNCHANGED <<content, genVars, apiVars>>

NextWrap == WrapCall \/ AddSectionWrap

SpecWrap == InitWrap /\ [][NextWrap]_vars

(***************************************************************************)
(* The renderer: generatePDF called twice on one submission.               *)
(***************************************************************************)
\* a job description of n paragraphs: words, with blank paragraphs between
\* them or a first paragraph too wide for a line, by the shape n selects
JobParagraph(i, n) ==
    IF n % 3 = 1 /\ i % 3 = 0 THEN <<>>
    ELSE IF n % 3 = 2 /\ i = 1 THEN <<LET_, SP, LET_, SP, LET_>>
    ELSE <<LET_>>

JobDescription(n) == Join([i \in 1..n |-> JobParagraph(i, n)], LF)

\* what the uploaded file's path can hold
Uploads ==
    [kind : {"missing", "unreadable", "empty", "corrupt"}, pageCount : {0}]
        \cup [kind : {"uncopyable"}, pageCount : 1..MaxPages]
        \cup [kind : {"ok"}, pageCount : 0..MaxPages]

\* the record of a submission, as the submit route creates it
Submission(job, uploaded) ==
    [id |-> "cm4x8k2p90000", firstName |-> <<"Ada">>, lastName |-> <<"Lovelace">>,
     email |-> <<"ada@example.org">>, phone |-> <<>>, jobDescription |-> job,
     uploadedFilePath |->
         IF uploaded THEN <<"uploads", "/", "1736073000-cv.pdf">> ELSE <<>>,
     uploadedFileName |-> IF uploaded THEN <<"cv.pdf">> ELSE <<>>,
     status |-> "processing", createdAt |-> "2025-01-05T10:30"]

InitRender ==
    /\ WrapIdle
    /\ ApiIdle
    /\ \E n \in 1..MaxLines, uploaded \in BOOLEAN :
           submission = Submission(JobDescription(n), uploaded)
    /\ upload \in Uploads
    /\ submission.uploadedFilePath = <<>> => upload.kind = "missing"
    /\ clock = "2025-01-05T10:31"
    /\ call = 1
    /\ genPc = "begin"
    /\ context = NoContext
    /\ plan = <<>>
    /\ pending = <<>>
    /\ thrownAt = "none"
    /\ generated = <<>>
    /\ first = [outcome |-> "none", pages |-> <<>>, path |-> <<>>]

\* the catch of generatePDF: every error leaves as an ApplicationError
Throw(step) ==
    /\ genPc' = "threw"
    /\ thrownAt' = step

\* lines 28 to 56: the document, its first page, the context and the title
GenBegin ==
    /\ genPc = "begin"
    /\ context' = addTitle(NewContext, <<"Application Summary">>)
    /\ plan' = SummarySteps(submission, clock)
    /\ genPc' = "next"
    /\ UNCHANGED <<wrapVars, apiVars, submission, upload, clock, call, pending, thrownAt,
                   generated, first>>

\* addSection, lines 139 to 143: a new page if the heading has no room
SectionCheck ==
    /\ genPc = "next"
    /\ plan # <<>>
    /\ Head(plan).op = "section"
    /\ context' = PageIfNeeded(context, 100000)
    /\ genPc' = "heading"
    /\ UNCHANGED <<wrapVars, apiVars, submission, upload, clock, call, plan, pending,
                   thrownAt, generated, first>>

\* addSection, lines 145 to 166: the heading is drawn, the content wrapped
SectionHeading ==
    /\ genPc = "heading"
    /\ context' = DrawHeading(context, Head(plan).heading)
    /\ pending' = wrapText(Sanitize(Head(plan).text), context.pageWidth,
                           context.margin)
    /\ genPc' = "lineCheck"
    /\ UNCHANGED <<wrapVars, apiVars, submission, upload, clock, call, plan, thrownAt,
                   generated, first>>

\* addSection, lines 168 to 176: a new page if the next line has no room
LineCheck ==
    /\ genPc = "lineCheck"
    /\ pending # <<>>
    /\ context' = PageIfNeeded(context, 20000)
    /\ genPc' = "line"
    /\ UNCHANGED <<wrapVars, apiVars, submission, upload, clock, call, plan, pending,
                   thrownAt, generated, first>>

\* addSection, lines 178 to 192: the line is drawn or skipped
LineDraw ==
    /\ genPc = "line"
    /\ context' = DrawLine(context, Head(pending))
    /\ pending' = Tail(pending)
    /\ genPc' = "lineCheck"
    /\ UNCHANGED <<wrapVars, apiVars, submission, upload, clock, call, plan, thrownAt,
                   generated, first>>

\* addSection, line 195: the spacing after the section; addSection returns
SectionEnd ==
    /\ genPc = "lineCheck"
    /\ pending = <<>>
    /\ context' = Advance(context, 20000)
    /\ plan' = Tail(plan)
    /\ genPc' = "next"
    /\ UNCHANGED <<wrapVars, apiVars, submission, upload, clock, call, pending, thrownAt,
                   generated, first>>

\* line 67: await embedUploadedPDF(context, submission.uploadedFilePath),
\* up to the point where it knows what to add to the document
GenEmbed ==
    /\ genPc = "next"
    /\ plan # <<>>
    /\ Head(plan).op = "embed"
    /\ LET embed == embedUploadedPDF(upload, submission.uploadedFilePath)
       IN  IF embed.throws
           THEN Throw("embed") /\ UNCHANGED plan
           ELSE plan' = embed.steps \o Tail(plan) /\ UNCHANGED <<genPc, thrownAt>>
    /\ UNCHANGED <<wrapVars, apiVars, submission, upload, clock, call, context, pending,
                   generated, first>>

\* embedUploadedPDF, lines 361 to 364: the copied pages are added
AddCopies ==
    /\ genPc = "next"
    /\ plan # <<>>
    /\ Head(plan).op = "pages"
    /\ context' = AddCopiedPages(context, 1, Head(plan).n)
    /\ plan' = Tail(plan)
    /\ UNCHANGED <<wrapVars, apiVars, submission, upload, clock, call, genPc, pending,
                   thrownAt, generated, first>>

\* lines 71 to 74: pdfDoc.save() and the check that it gave bytes
GenSave ==
    /\ genPc = "next"
    /\ plan = <<>>
    /\ \E ok \in BOOLEAN :
           IF ok THEN genPc' = "mkdir" /\ UNCHANGED thrownAt ELSE Throw("save")
    /\ UNCHANGED <<wrapVars, apiVars, submission, upload, clock, call, context, plan,
                   pending, generated, first>>

\* lines 77 to 78: mkdir(generatedDir, {recursive: true})
GenMkdir ==
    /\ genPc = "mkdir"
    /\ \E ok \in BOOLEAN :
           IF ok THEN genPc' = "write" /\ UNCHANGED thrownAt ELSE Throw("mkdir")
    /\ UNCHANGED <<wrapVars, apiVars, submission, upload, clock, call, context, plan,
                   pending, generated, first>>

\* lines 81 to 83: writeFile(pdfPath, pdfBytes)
GenWrite ==
    /\ genPc = "write"
    /\ \E ok \in BOOLEAN :
           IF ok
           THEN /\ generated' = context.pages
                /\ genPc' = "verify"
                /\ UNCHANGED thrownAt
           ELSE /\ Throw("write")
                /\ UNCHANGED generated
    /\ UNCHANGED <<wrapVars, apiVars, submission, upload, clock, call, context, plan,
                   pending, first>>

\* lines 86 to 98: access and readFile of the written file, then return
GenVerify ==
    /\ genPc = "verify"
    /\ \E ok \in BOOLEAN :
           IF ok /\ generated # <<>>
           THEN genPc' = "returned" /\ UNCHANGED thrownAt
           ELSE Throw("verify")
    /\ UNCHANGED <<wrapVars, apiVars, submission, upload, clock, call, context, plan,
                   pending, generated, first>>

\* what the call gave its caller: the path, when it returned
Returned == IF genPc = "returned" THEN PdfPath(submission.id) ELSE <<>>

\* generatePDF is called again on the same submission, later
GenAgain ==
    /\ call = 1
    /\ genPc \in {"returned", "threw"}
    /\ first' = [outcome |-> genPc, pages |-> generated, path |-> Returned]
    /\ call' = 2
    /\ clock' = "2025-01-05T10:32"
    /\ genPc' = "begin"
    /\ context' = NoContext
    /\ plan' = <<>>
    /\ pending' = <<>>
    /\ thrownAt' = "none"
    /\ UNCHANGED <<wrapVars, apiVars, submission, upload, generated>>

NextRender ==
    \/ GenBegin
    \/ SectionCheck
    \/ SectionHeading
    \/ LineCheck
    \/ LineDraw
    \/ SectionEnd
    \/ GenEmbed
    \/ AddCopies
    \/ GenSave
    \/ GenMkdir
    \/ GenWrite
    \/ GenVerify
    \/ GenAgain

SpecRender == InitRender /\ [][NextRender]_vars

(***************************************************************************)
(* Properties of the text flow.                                            *)
(***************************************************************************)
Wrapped == wrapPc # "input"

HasSpace(s) == \E i \in 1..Len(s) : s[i] = SP

FitsPage(s) == WidthOfTextAtSize(s) <= MaxWidth(PAGE_WIDTH, MARGIN)

\* C1 as stated: every line wrapText returns is at most
\* pageWidth - 2*margin wide in the regular font at TEXT_SIZE.
C1_EveryLineFits ==
    Wrapped => \A i \in 1..Len(lines) : FitsPage(lines[i])

\* C1, amended: every line wrapText returns that holds more than one word
\* is at most pageWidth - 2*margin wide; a wider line is a single word
\* (it holds no space) that is wider than the limit by itself.
C1_MultiWordLinesFit ==
    Wrapped => \A i \in 1..Len(lines) : HasSpace(lines[i]) => FitsPage(lines[i])

\* the words wrapText takes from a paragraph: the pieces between spaces,
\* each cleaned of the stripped characters, without the ones it skips
\* because the font cannot encode them
CleanWords(paragraph) ==
    LET words == SplitOn(paragraph, SP)
    IN  SelectSeq([i \in 1..Len(words) |-> Sanitize(words[i])], CanEncode)

NonEmpty(s) == s # <<>>

\* the non-empty words of all paragraphs of a text, in order
WordsOfText(text) ==
    LET ps == Paragraphs(text)
    IN  SelectSeq(Flatten([p \in 1..Len(ps) |-> CleanWords(ps[p])]), NonEmpty)

\* the non-empty words of all lines, in order
WordsOfLines(ls) ==
    SelectSeq(Flatten([i \in 1..Len(ls) |-> SplitOn(ls[i], SP)]), NonEmpty)

\* the words of a text as a reader sees them: the pieces between white
\* space of the text without its unsupported characters
RECURSIVE SpaceForLF(_)
SpaceForLF(s) ==
    IF Len(s) = 0 THEN <<>>
    ELSE <<IF s[1] = LF THEN SP ELSE s[1]>> \o SpaceForLF(Tail(s))

\* the characters the font's encoding supports
Supported(c) == c \notin {CTL, UNI}

SupportedWords(text) ==
    SelectSeq(SplitOn(SpaceForLF(SelectSeq(text, Supported)), SP), NonEmpty)

\* a paragraph of three words was broken into a two-word line and a rest
C1_Witness ==
    /\ wrapPc = "wrapped"
    /\ Len(Paragraphs(wrapInput)) = 1
    /\ Len(lines) = 2
    /\ Len(WordsOfLines(<<lines[1]>>)) = 2
    /\ ~FitsPage(Join(lines, SP))

\* C2 as stated, for the words: the lines of a section reproduce the
\* content with only the unsupported characters removed, so the words of
\* the lines are the words of the content without its unsupported
\* characters: none dropped, duplicated or reordered.
C2_NoSupportedWordDropped ==
    wrapPc = "sectioned" => WordsOfLines(lines) = SupportedWords(content)

\* line is the single-space join of consecutive words of the paragraph
IsRunOfWords(line, paragraph) ==
    LET ws == CleanWords(paragraph)
    IN  \E a \in 1..Len(ws) : \E b \in a..Len(ws) :
            line = Join(SubSeq(ws, a, b), SP)

PageStarted ==
    /\ genPc \in {"next", "lineCheck"}
    /\ Len(context'.pages) = Len(context.pages) + 1
    /\ context'.pages[Len(context'.pages)] = LayoutPage
    /\ context'.page = Len(context'.pages)

\* the step drew text on the page drawn on, at the cursor
DrewAtCursor ==
    /\ context'.page = context.page
    /\ Len(context'.pages[context.page].items)
           = Len(context.pages[context.page].items) + 1
    /\ context'.pages[context.page].items[Len(context'.pages[context.page].items)].y
           = context.currentY

\* C4: while a section is rendered, a new page is started whenever the
\* cursor leaves too little room for the next heading (less than
\* margin + 100) or the next line (less than margin + 20), before that
\* heading or line is drawn, and right after every new page the cursor
\* currentY is pageHeight - margin.
C4_PageBreaks ==
    [][ /\ (genPc = "next" /\ genPc' = "heading"
               /\ context.currentY < context.margin + 100000) => PageStarted
        /\ (genPc = "lineCheck" /\ genPc' = "line"
               /\ context.currentY < context.margin + 20000) => PageStarted
        /\ PageStarted => context'.currentY = PAGE_HEIGHT - MARGIN
        /\ (genPc = "heading" /\ genPc' # "heading") =>
               context.currentY >= context.margin + 100000 /\ DrewAtCursor
        /\ (genPc = "line" /\ genPc' # "line" /\ ~IsBlank(Head(pending))) =>
               context.currentY >= context.margin + 20000 /\ DrewAtCursor
      ]_vars

\* a third page was just started for a heading, the second one for a line
C4_Witness ==
    /\ genPc = "heading"
    /\ Len(context.pages) = 3
    /\ context.page = 3
    /\ context.currentY = PAGE_HEIGHT - MARGIN
    /\ context.pages[2].items # <<>>
    /\ context.pages[2].items[1].size = TEXT_SIZE * 1000

\* the headings drawn on the pages of a document
HasHeading(pages, heading) ==
    \E k \in 1..Len(pages) : \E i \in 1..Len(pages[k].items) :
        /\ pages[k].items[i].size = HEADING_SIZE
        /\ pages[k].items[i].text = <<heading>>

\* the pages of a document that were copied from the uploaded PDF
CopiedIn(pages) == {k \in 1..Len(pages) : pages[k].kind = "copied"}

\* the uploaded file is one that cannot be embedded
EmbedFails ==
    /\ submission.uploadedFilePath # <<>>
    /\ \/ upload.kind \in {"missing", "unreadable", "empty", "corrupt", "uncopyable"}
       \/ upload.pageCount = 0

\* embedUploadedPDF was called and has returned
EmbedReturned ==
    /\ submission.uploadedFilePath # <<>>
    /\ plan = <<>>
    /\ \/ genPc \in {"next", "mkdir", "write", "verify", "returned"}
       \/ genPc = "threw" /\ thrownAt # "embed"

\* C5: embedding failure is not fatal: whichever way embedding the uploaded
\* PDF fails (no access, empty file, load error, no pages, copy error),
\* embedUploadedPDF does not throw, a section that explains the failure
\* stands in place of the pages, and generatePDF goes on to save the
\* document: it returns the path of the written PDF, and throws only if
\* saving, writing or verifying the file fails.
C5_EmbedFailureNotFatal ==
    EmbedFails =>
        /\ thrownAt # "embed"
        /\ EmbedReturned =>
               /\ HasHeading(context.pages, FailureHeading)
               /\ CopiedIn(context.pages) = {}
        /\ genPc = "threw" => thrownAt \in {"save", "mkdir", "write", "verify"}
        /\ genPc = "returned" =>
               /\ Returned = PdfPath(submission.id)
               /\ generated = context.pages
               /\ HasHeading(generated, FailureHeading)

\* generatePDF returned the path although the pages could not be copied
C5_Witness ==
    /\ EmbedFails
    /\ upload.kind = "uncopyable"
    /\ genPc = "returned"
    /\ Returned = PdfPath(submission.id)

\* C6: embedding is all or nothing: once embedUploadedPDF has returned, the
\* document holds all pageCount pages of the uploaded PDF, in their order,
\* after every generated page (the divider section among them), and no
\* failure section; or it holds none of them, a failure section and no
\* divider section.
C6_EmbedAllOrNothing ==
    EmbedReturned =>
        LET pages == context.pages
            n == upload.pageCount
        IN  \/ /\ upload.kind = "ok" /\ n >= 1
               /\ CopiedIn(pages) = (Len(pages) - n + 1)..Len(pages)
               /\ \A i \in 1..n : pages[Len(pages) - n + i].src = i
               /\ HasHeading(pages, DividerHeading)
               /\ ~HasHeading(pages, FailureHeading)
            \/ /\ CopiedIn(pages) = {}
               /\ HasHeading(pages, FailureHeading)
               /\ ~HasHeading(pages, DividerHeading)

\* both pages of an uploaded PDF were embedded and the document written
C6_Witness ==
    /\ EmbedReturned
    /\ genPc = "returned"
    /\ upload.kind = "ok"
    /\ upload.pageCount = 2
    /\ Cardinality(CopiedIn(generated)) = 2

\* the text of a document: the texts drawn on each of its pages, in order
TextOf(pages) ==
    [k \in 1..Len(pages) |->
        [i \in 1..Len(pages[k].items) |-> pages[k].items[i].text]]

\* C7: the renderer is idempotent: when generatePDF has returned for the
\* second call on a submission as it did for the first, the two written
\* PDFs have the same number of pages and the same text, and the two calls
\* returned the same path.
C7_Idempotent ==
    (call = 2 /\ genPc = "returned" /\ first.outcome = "returned") =>
        /\ Len(generated) = Len(first.pages)
        /\ TextOf(generated) = TextOf(first.pages)
        /\ Returned = first.path

\* both calls returned, for a summary of several pages with embedded ones
C7_Witness ==
    /\ call = 2
    /\ genPc = "returned"
    /\ first.outcome = "returned"
    /\ Len(first.pages) >= 3
    /\ CopiedIn(generated) # {}

(***************************************************************************)
(* The routes (app/api/submit/route.ts): POST creates a submission and its *)
(* PDF, GET downloads the PDF of a submission. Each request is a process   *)
(* that takes one step per await; requests interleave at the awaits.       *)
(* A file of the generated directory is "absent", "partial" (writeFile has *)
(* begun), "empty" or "complete".                                          *)
(***************************************************************************)
\* FILE_UPLOAD_CONFIG (lib/constants.ts)
MAX_FILE_SIZE == 10485760

ALLOWED_MIME_TYPES == {"application/pdf"}

\* the files a request may carry
Files ==
    {[present |-> TRUE, type |-> t, size |-> s] :
         t \in {"application/pdf", "image/png"}, s \in {1024, MAX_FILE_SIZE + 1}}

\* a file that passes validateFile
GoodFile == [present |-> TRUE, type |-> "application/pdf", size |-> 1024]

\* the form data a request may carry: fields that satisfy the schema with
\* any file or none, or fields that do not, with a good file
Inputs ==
    {[fieldsValid |-> TRUE, file |-> f] : f \in Files \cup {NoFile}}
        \cup {[fieldsValid |-> FALSE, file |-> GoodFile]}

\* lib/file-utils validateFile: the MIME type and the size limit
validateFile(file) ==
    IF file.type \notin ALLOWED_MIME_TYPES
    THEN [isValid |-> FALSE, error |-> "Only PDF files are allowed"]
    ELSE IF file.size > MAX_FILE_SIZE
    THEN [isValid |-> FALSE, error |-> "File size exceeds 10MB limit"]
    ELSE [isValid |-> TRUE, error |-> ""]

NoError == [name |-> "", message |-> "", statusCode |-> 0]

ApplicationError(message, statusCode) ==
    [name |-> "ApplicationError", message |-> message, statusCode |-> statusCode]

\* what applicationFormSchema.parse throws
ZodError == [name |-> "ZodError", message |-> "Invalid form data", statusCode |-> 0]

\* what the file system, the database or the request body throws
OtherError(message) == [name |-> "Error", message |-> message, statusCode |-> 0]

\* lib/file-utils handleApiError: the message and the status of the response
handleApiError(error) ==
    IF error.name = "ApplicationError"
    THEN [message |-> error.message, statusCode |-> error.statusCode]
    ELSE IF error.name = "ZodError"
    THEN [message |-> "Invalid form data", statusCode |-> 400]
    ELSE [message |-> "Internal server error", statusCode |-> 500]

\* the catch of POST and of GET: the JSON error response
ErrorResponse(error) ==
    [success |-> FALSE, status |-> handleApiError(error).statusCode,
     submissionId |-> "", body |-> handleApiError(error).message]

\* the success response of POST
SuccessResponse(id) ==
    [success |-> TRUE, status |-> 200, submissionId |-> id, body |-> "pdfUrl"]

\* the PDF response of GET, carrying what readFile returned
PdfResponse(buffer) ==
    [success |-> TRUE, status |-> 200, submissionId |-> "", body |-> buffer]

\* the validation of POST with the file checks left out
ValidateFieldsOnly(input) ==
    IF ~input.fieldsValid THEN ZodError ELSE NoError

\* the validation of POST: the error thrown, NoError if none
Validate(input) ==
    IF ~input.fieldsValid
    THEN ZodError
    ELSE IF ~input.file.present
    THEN ApplicationError("No file uploaded", 400)
    ELSE IF ~validateFile(input.file).isValid
    THEN ApplicationError(validateFile(input.file).error, 400)
    ELSE NoError

\* the id the database gives the record of key k
IdOf(k) == "cmh4x8k2p000" \o ToString(k)

\* a record created with the schema's default status
NewRecordPending(k) ==
    [exists |-> TRUE, id |-> IdOf(k), status |-> "pending", generatedPdfPath |-> <<>>]

\* the record tx.userSubmission.create makes
NewRecord(k) ==
    [exists |-> TRUE, id |-> IdOf(k), status |-> "processing", generatedPdfPath |-> <<>>]

\* the key of the next record
FreeKey == CHOOSE k \in Posts : ~db[k].exists /\ \A j \in 1..(k - 1) : db[j].exists

\* the file at a path of the generated directory
FileAt(path) ==
    IF \E k \in Posts : PdfPath(IdOf(k)) = path
    THEN genFiles[CHOOSE k \in Posts : PdfPath(IdOf(k)) = path]
    ELSE "absent"

\* prisma.userSubmission.findUnique({where: {id}}): the key, 0 if none
FindUnique(id) ==
    IF \E k \in Posts : db[k].exists /\ db[k].id = id
    THEN CHOOSE k \in Posts : db[k].exists /\ db[k].id = id
    ELSE 0

\* the request ends in the catch of POST
PostFails(p, error) ==
    posts' = [posts EXCEPT ![p].pc = "done", ![p].response = ErrorResponse(error)]

\* the request moves on
PostGoes(p, pc) == posts' = [posts EXCEPT ![p].pc = pc]

\* generatePDF throws: the catch block of POST is next
PdfThrows(p) == posts' = [posts EXCEPT ![p].pc = "markFailed", ![p].pdfError = TRUE]

Init ==
    /\ WrapIdle
    /\ GenIdle
    /\ ApiIdle

\* POST line 23: request.formData(). The requests are numbered as they arrive.
PostReceive(p) ==
    /\ posts[p].pc = "idle"
    /\ \A q \in 1..(p - 1) : posts[q].pc # "idle"
    /\ \E ok \in BOOLEAN :
           IF ok
           THEN \E input \in Inputs :
                    posts' = [posts EXCEPT ![p].pc = "validate", ![p].input = input]
           ELSE PostFails(p, OtherError("formData"))
    /\ UNCHANGED <<wrapVars, genVars, db, stored, uploadsDir, genFiles, gets>>

\* POST lines 25 to 50: the schema, the file, validateFile
PostValidate(p) ==
    /\ posts[p].pc = "validate"
    /\ IF Validate(posts[p].input) # NoError
       THEN PostFails(p, Validate(posts[p].input))
       ELSE PostGoes(p, "mkdir")
    /\ UNCHANGED <<wrapVars, genVars, db, stored, uploadsDir, genFiles, gets>>

\* POST lines 71 to 72: mkdir(uploadsDir, {recursive: true})
PostMkdir(p) ==
    /\ posts[p].pc = "mkdir"
    /\ \E ok \in BOOLEAN :
           IF ok
           THEN uploadsDir' = TRUE /\ PostGoes(p, "write")
           ELSE PostFails(p, OtherError("mkdir")) /\ UNCHANGED uploadsDir
    /\ UNCHANGED <<wrapVars, genVars, db, stored, genFiles, gets>>

\* POST lines 75 to 86: the bytes of the file are written under a fresh name
PostWrite(p) ==
    /\ posts[p].pc = "write"
    /\ \E ok \in BOOLEAN :
           IF ok
           THEN /\ stored' = stored \cup {p}
                /\ posts' = [posts EXCEPT ![p].pc = "create", ![p].filePath = p]
           ELSE PostFails(p, OtherError("writeFile")) /\ UNCHANGED stored
    /\ UNCHANGED <<wrapVars, genVars, db, uploadsDir, genFiles, gets>>

\* POST lines 89 to 101: the transaction that creates the record
PostCreate(p) ==
    /\ posts[p].pc = "create"
    /\ \E ok \in BOOLEAN :
           IF ok
           THEN /\ db' = [db EXCEPT ![FreeKey] = NewRecord(FreeKey)]
                /\ posts' = [posts EXCEPT ![p].pc = "generate", ![p].sub = FreeKey]
           ELSE PostFails(p, OtherError("transaction")) /\ UNCHANGED db
    /\ UNCHANGED <<wrapVars, genVars, stored, uploadsDir, genFiles, gets>>

\* generatePDF returning the path once the bytes are saved, before the file
\* is written and verified
PostGenerateReturnsEarly(p) ==
    /\ posts[p].pc = "generate"
    /\ posts' = [posts EXCEPT ![p].pc = "markCompleted",
                              ![p].pdfPath = PdfPath(db[posts[p].sub].id)]
    /\ UNCHANGED <<wrapVars, genVars, db, stored, uploadsDir, genFiles, gets>>

\* POST line 106, generatePDF lines 28 to 78: the document is laid out,
\* saved to bytes, and the generated directory made
PostGenerate(p) ==
    /\ posts[p].pc = "generate"
    /\ \E ok \in BOOLEAN : IF ok THEN PostGoes(p, "pdfWrite") ELSE PdfThrows(p)
    /\ UNCHANGED <<wrapVars, genVars, db, stored, uploadsDir, genFiles, gets>>

\* generatePDF lines 81 to 83: writeFile(pdfPath, pdfBytes) opens the file
PostPdfWrite(p) ==
    /\ posts[p].pc = "pdfWrite"
    /\ \E ok \in BOOLEAN :
           IF ok
           THEN /\ \E written \in {"empty", "partial"} :
                       genFiles' = [genFiles EXCEPT ![posts[p].sub] = written]
                /\ PostGoes(p, "pdfWriting")
           ELSE PdfThrows(p) /\ UNCHANGED genFiles
    /\ UNCHANGED <<wrapVars, genVars, db, stored, uploadsDir, gets>>

\* generatePDF line 83: writeFile resolves, or rejects part way
PostPdfWritten(p) ==
    /\ posts[p].pc = "pdfWriting"
    /\ \E ok \in BOOLEAN :
           IF ok
           THEN /\ genFiles' = [genFiles EXCEPT ![posts[p].sub] = "complete"]
                /\ PostGoes(p, "pdfVerify")
           ELSE PdfThrows(p) /\ UNCHANGED genFiles
    /\ UNCHANGED <<wrapVars, genVars, db, stored, uploadsDir, gets>>

\* generatePDF lines 86 to 98: access and readFile of the file, the return
PostPdfVerify(p) ==
    /\ posts[p].pc = "pdfVerify"
    /\ \E ok \in BOOLEAN :
           IF ok /\ genFiles[posts[p].sub] = "complete"
           THEN posts' = [posts EXCEPT ![p].pc = "markCompleted",
                                       ![p].pdfPath = PdfPath(db[posts[p].sub].id)]
           ELSE PdfThrows(p)
    /\ UNCHANGED <<wrapVars, genVars, db, stored, uploadsDir, genFiles, gets>>

\* POST lines 107 to 125: the status is set to failed, then the error thrown
PostMarkFailed(p) ==
    /\ posts[p].pc = "markFailed"
    /\ \E ok \in BOOLEAN :
           IF ok
           THEN /\ db' = [db EXCEPT ![posts[p].sub].status = "failed"]
                /\ PostFails(p, ApplicationError("PDF generation failed", 500))
           ELSE PostFails(p, OtherError("update")) /\ UNCHANGED db
    /\ UNCHANGED <<wrapVars, genVars, stored, uploadsDir, genFiles, gets>>

\* POST lines 129 to 146: the path and the status completed are stored,
\* then the success response returned
PostMarkCompleted(p) ==
    /\ posts[p].pc = "markCompleted"
    /\ \E ok \in BOOLEAN :
           IF ok
           THEN /\ db' = [db EXCEPT ![posts[p].sub].status = "completed",
                                    ![posts[p].sub].generatedPdfPath = posts[p].pdfPath]
                /\ posts' = [posts EXCEPT
                                 ![p].pc = "done",
                                 ![p].response = SuccessResponse(db[posts[p].sub].id)]
           ELSE PostFails(p, OtherError("update")) /\ UNCHANGED db
    /\ UNCHANGED <<wrapVars, genVars, stored, uploadsDir, genFiles, gets>>

\* the ids a download may ask for: too short, unknown, or a submission's
GetIds == {"abc", "cmh4x8k2p0000"} \cup {IdOf(k) : k \in Posts}

\* the request ends in the catch of GET
GetFails(g, error) ==
    gets' = [gets EXCEPT ![g].pc = "done", ![g].response = ErrorResponse(error)]

\* GET line 180: the id of the request
GetReceive(g) ==
    /\ gets[g].pc = "idle"
    /\ \A h \in 1..(g - 1) : gets[h].pc # "idle"
    /\ \E id \in GetIds : gets' = [gets EXCEPT ![g].pc = "lookup", ![g].id = id]
    /\ UNCHANGED <<wrapVars, genVars, db, stored, uploadsDir, genFiles, posts>>

\* the checks of GET with the one on processing left out
GetCheckNoProcessing(id, k) ==
    IF k = 0
    THEN ApplicationError("Submission not found", 404)
    ELSE IF db[k].status = "failed"
    THEN ApplicationError("PDF generation failed", 500)
    ELSE IF db[k].generatedPdfPath = <<>>
    THEN ApplicationError("PDF not available", 404)
    ELSE NoError

\* what GET throws on the record found (key k, 0 if none), NoError if it
\* goes on to the file
GetCheck(id, k) ==
    IF k = 0
    THEN ApplicationError("Submission not found", 404)
    ELSE IF db[k].status = "processing"
    THEN ApplicationError("PDF is still being generated", 202)
    ELSE IF db[k].status = "failed"
    THEN ApplicationError("PDF generation failed", 500)
    ELSE IF db[k].generatedPdfPath = <<>>
    THEN ApplicationError("PDF not available", 404)
    ELSE NoError

\* GET lines 183 to 222: the id check, findUnique, the status checks
GetLookup(g) ==
    /\ gets[g].pc = "lookup"
    /\ IF Len(gets[g].id) < 10
       THEN GetFails(g, ApplicationError("Invalid submission ID", 400))
       ELSE \E ok \in BOOLEAN :
                IF ~ok
                THEN GetFails(g, OtherError("findUnique"))
                ELSE IF GetCheck(gets[g].id, FindUnique(gets[g].id)) # NoError
                THEN GetFails(g, GetCheck(gets[g].id, FindUnique(gets[g].id)))
                ELSE gets' = [gets EXCEPT
                                  ![g].pc = "access",
                                  ![g].sub = FindUnique(gets[g].id),
                                  ![g].path = db[FindUnique(gets[g].id)].generatedPdfPath]
    /\ UNCHANGED <<wrapVars, genVars, db, stored, uploadsDir, genFiles, posts>>

\* GET lines 225 to 233: access(submission.generatedPdfPath)
GetAccess(g) ==
    /\ gets[g].pc = "access"
    /\ \E ok \in BOOLEAN :
           IF ok /\ FileAt(gets[g].path) # "absent"
           THEN gets' = [gets EXCEPT ![g].pc = "read"]
           ELSE GetFails(g, ApplicationError("PDF file not found on server", 404))
    /\ UNCHANGED <<wrapVars, genVars, db, stored, uploadsDir, genFiles, posts>>

\* GET lines 236 to 260: readFile, the empty check, the PDF response
GetRead(g) ==
    /\ gets[g].pc = "read"
    /\ \E ok \in BOOLEAN :
           IF ~ok \/ FileAt(gets[g].path) = "absent"
           THEN GetFails(g, OtherError("readFile"))
           ELSE IF FileAt(gets[g].path) = "empty"
           THEN GetFails(g, ApplicationError("PDF file is empty", 500))
           ELSE gets' = [gets EXCEPT ![g].pc = "done",
                                     ![g].response = PdfResponse(FileAt(gets[g].path))]
    /\ UNCHANGED <<wrapVars, genVars, db, stored, uploadsDir, genFiles, posts>>

Next ==
    \/ \E p \in Posts : PostReceive(p)
    \/ \E p \in Posts : PostValidate(p)
    \/ \E p \in Posts : PostMkdir(p)
    \/ \E p \in Posts : PostWrite(p)
    \/ \E p \in Posts : PostCreate(p)
    \/ \E p \in Posts : PostGenerate(p)
    \/ \E p \in Posts : PostPdfWrite(p)
    \/ \E p \in Posts : PostPdfWritten(p)
    \/ \E p \in Posts : PostPdfVerify(p)
    \/ \E p \in Posts : PostMarkFailed(p)
    \/ \E p \in Posts : PostMarkCompleted(p)
    \/ \E g \in Gets : GetReceive(g)
    \/ \E g \in Gets : GetLookup(g)
    \/ \E g \in Gets : GetAccess(g)
    \/ \E g \in Gets : GetRead(g)

Spec == Init /\ [][Next]_vars

(***************************************************************************)
(* Properties of the routes.                                               *)
(***************************************************************************)
\* a step creates the record of key k
Created(k) == ~db[k].exists /\ db'[k].exists

\* a step leaves the record of key k in place, its status kept or changed
\* along one of the arrows
Moves(k, arrows) ==
    db[k].exists =>
        /\ db'[k].exists
        /\ \/ db'[k].status = db[k].status
           \/ <<db[k].status, db'[k].status>> \in arrows

\* C8 as stated: a record starts in pending and its status only moves
\* pending -> processing -> completed or failed, the last two being final.
C8_StartsPending ==
    [][\A k \in Posts :
           /\ Created(k) => db'[k].status = "pending"
           /\ Moves(k, {<<"pending", "processing">>, <<"processing", "completed">>,
                        <<"processing", "failed">>})]_vars

\* C8, amended: a record is created with status processing (never pending);
\* its status then changes at most once, from processing to completed or
\* from processing to failed, and completed and failed are final.
C8_StatusMachine ==
    [][\A k \in Posts :
           /\ Created(k) => db'[k].status = "processing"
           /\ Moves(k, {<<"processing", "completed">>,
                        <<"processing", "failed">>})]_vars

\* one record has reached completed, another failed
C8_Witness ==
    \E j, k \in Posts :
        /\ db[j].exists /\ db[j].status = "completed"
        /\ db[k].exists /\ db[k].status = "failed"

\* the form data fails validation: the fields, a missing file, a MIME type
\* that is not allowed, or a size above the limit
Invalid(input) ==
    \/ ~input.fieldsValid
    \/ ~input.file.present
    \/ input.file.type # "application/pdf"
    \/ input.file.size > MAX_FILE_SIZE

\* C9: a submit request whose form data fails validation ends, in the step
\* that validates it, with a failure response, and that step writes no
\* uploaded file, makes no directory and creates or changes no record.
C9_ValidationFirst ==
    [][\A p \in Posts :
           (posts[p].pc = "validate" /\ Invalid(posts[p].input) /\ posts'[p] # posts[p])
               => /\ posts'[p].pc = "done"
                  /\ ~posts'[p].response.success
                  /\ posts'[p].response.status = 400
                  /\ posts'[p].filePath = 0
                  /\ posts'[p].sub = 0
                  /\ UNCHANGED <<db, stored, uploadsDir, genFiles>>]_vars

\* a request with valid fields and a PDF above the size limit was refused,
\* and nothing was written or created
C9_Witness ==
    \E p \in Posts :
        /\ posts[p].pc = "done"
        /\ posts[p].input.fieldsValid
        /\ posts[p].input.file.present
        /\ posts[p].input.file.type = "application/pdf"
        /\ posts[p].input.file.size > MAX_FILE_SIZE
        /\ ~posts[p].response.success
        /\ stored = {}
        /\ \A k \in Posts : ~db[k].exists

\* C10: once a submit request has responded, if PDF generation failed then
\* the record's status is failed, its generatedPdfPath is unset and the
\* response is an error with status 500; and if the response is a success
\* then the record's status is completed and its generatedPdfPath is set.
C10_FailureMarksFailed ==
    \A p \in Posts :
        posts[p].pc = "done" =>
            /\ posts[p].pdfError =>
                   /\ db[posts[p].sub].status = "failed"
                   /\ db[posts[p].sub].generatedPdfPath = <<>>
                   /\ ~posts[p].response.success
                   /\ posts[p].response.status = 500
            /\ posts[p].response.success =>
                   /\ posts[p].sub # 0
                   /\ db[posts[p].sub].status = "completed"
                   /\ db[posts[p].sub].generatedPdfPath = PdfPath(db[posts[p].sub].id)

\* the record a download asks for, as the database holds it (NoRecord if
\* there is none under that id)
Asked(g) ==
    IF FindUnique(gets[g].id) = 0 THEN NoRecord ELSE db[FindUnique(gets[g].id)]

\* the step is the lookup of download g, and findUnique resolved if called
Looked(g) ==
    /\ gets[g].pc = "lookup"
    /\ gets'[g].pc # "lookup"
    /\ gets'[g].response # ErrorResponse(OtherError("findUnique"))

\* download g has answered with the bytes of a PDF
Served(g) == gets[g].pc = "done" /\ gets[g].response.success

\* the record download g read is completed, its path set, its file there and
\* not empty, and the response carries the file
ServedRecord(g) ==
    /\ gets[g].sub # 0
    /\ db[gets[g].sub].id = gets[g].id
    /\ db[gets[g].sub].status = "completed"
    /\ db[gets[g].sub].generatedPdfPath # <<>>
    /\ FileAt(db[gets[g].sub].generatedPdfPath) \notin {"absent", "empty"}
    /\ gets[g].response.status = 200
    /\ gets[g].response.body \notin {"absent", "empty"}

\* C11: a download answers with the PDF only for a record that is completed,
\* has its generatedPdfPath set and whose file is there and not empty; its
\* lookup answers 400 for an id shorter than 10 characters whatever the
\* database holds or does, and, when findUnique resolves, 404 for an unknown
\* id, 202 for a record in processing and 500 for a failed one; and no step
\* of a download changes a record or a file.
C11_Download ==
    [][\A g \in Gets :
           /\ (Served(g) => ServedRecord(g))'
           /\ (gets[g].pc = "lookup" /\ gets'[g].pc # "lookup" /\ Len(gets[g].id) < 10)
                  => gets'[g].pc = "done" /\ gets'[g].response.status = 400
           /\ (Looked(g) /\ Len(gets[g].id) >= 10) =>
                  /\ ~Asked(g).exists
                         => gets'[g].pc = "done" /\ gets'[g].response.status = 404
                  /\ (Asked(g).exists /\ Asked(g).status = "processing")
                         => gets'[g].pc = "done" /\ gets'[g].response.status = 202
                  /\ (Asked(g).exists /\ Asked(g).status = "failed")
                         => gets'[g].pc = "done" /\ gets'[g].response.status = 500
           /\ gets'[g] # gets[g] => UNCHANGED <<db, genFiles, stored, uploadsDir>>]_vars

\* a download of a completed submission has answered with its PDF
C11_Witness ==
    \E g \in Gets :
        /\ Served(g)
        /\ gets[g].response.body = "complete"
        /\ db[gets[g].sub].status = "completed"

\* C12: once a submit request that created a record has responded, with
\* success or with an error, the record is completed or failed, and not
\* still in processing, whichever step failed.
C12_NeverLeftProcessing ==
    \A p \in Posts :
        (posts[p].pc = "done" /\ posts[p].sub # 0)
            => db[posts[p].sub].status \in {"completed", "failed"}

\* C13: under every interleaving of downloads and submit requests, a record
\* is completed only once the file at its generatedPdfPath is fully written
\* (and generatePDF has verified it); a download that has passed the checks
\* on the record reads a fully written file, and one that answers with the
\* PDF carries the complete file, never an absent, empty or partial one.
C13_CompletedAfterWritten ==
    /\ \A k \in Posts :
           (db[k].exists /\ db[k].status = "completed")
               => /\ db[k].generatedPdfPath = PdfPath(db[k].id)
                  /\ genFiles[k] = "complete"
    /\ \A g \in Gets :
           /\ gets[g].pc \in {"access", "read"} => FileAt(gets[g].path) = "complete"
           /\ Served(g) => gets[g].response.body = "complete"

\* a download asked for a submission whose PDF was being written by the
\* submit request in flight, and was answered 202
C13_Witness ==
    \E g \in Gets, p \in Posts :
        /\ posts[p].pc = "pdfWriting"
        /\ genFiles[posts[p].sub] \in {"empty", "partial"}
        /\ gets[g].pc = "done"
        /\ gets[g].id = db[posts[p].sub].id
        /\ gets[g].response.status = 202

=============================================================================
